---- MODULE Spec2Model ----
(***************************************************************************)
(* Model of the lint rule no-async-promise-executor                        *)
(* (src/rules/no_async_promise_executor.rs).                               *)
(*                                                                         *)
(* A program is a syntax tree.  Source positions are counted in tokens: a  *)
(* span [lo, hi) covers the tokens lo .. hi-1 of the file.  Statements are *)
(* expression statements, each followed by one semicolon token.             *)
(***************************************************************************)
EXTENDS Integers, Sequences, FiniteSets, TLC

\* deepest parenthesization of a first argument / a callee
MaxParen == 5
\* longest argument list of a constructor call
MaxArgs == 2
\* number of times lint_program is run over the same tree
MaxRuns == 2

CODE == "no-async-promise-executor"
MESSAGE == "Async promise executors are not allowed"
\* the two quotes around async stand for the backquotes of the source string
HINT == "Remove 'async' from executor function and adjust promise code as needed"

(***************************************************************************)
(* Syntax tree (swc_ecmascript::ast), before spans are assigned.           *)
(***************************************************************************)
Ident(s) == [kind |-> "Ident", sym |-> s]
FnExpr(a, b) == [kind |-> "Fn", is_async |-> a, body |-> b]
ArrowExpr(a, b) == [kind |-> "Arrow", is_async |-> a, body |-> b]
ParenExpr(e) == [kind |-> "Paren", expr |-> e]
MemberExpr(o, p) == [kind |-> "Member", obj |-> o, prop |-> p]
\* args is Option<Vec<ExprOrSpread>>: <<>> is None, <<v>> is Some(v)
NewExpr(c, as) == [kind |-> "New", callee |-> c, args |-> as]
CallExpr(c, as) == [kind |-> "Call", callee |-> c, args |-> as]
\* a class expression with one method, foo() { body }
ClassExpr(b) == [kind |-> "Class", body |-> b]
ExprOrSpread(s, e) == [spread |-> s, expr |-> e]
Program(k, b) == [kind |-> k, body |-> b]

RECURSIVE Parens(_, _)
\* e wrapped in n pairs of parentheses
Parens(e, n) == IF n = 0 THEN e ELSE ParenExpr(Parens(e, n - 1))

(***************************************************************************)
(* Span assignment: what the parser records for a tree whose first token   *)
(* is at position lo.                                                      *)
(***************************************************************************)
RECURSIVE Spanned(_, _)
RECURSIVE SpannedStmts(_, _)
RECURSIVE SpannedArgs(_, _)

SpannedStmts(ss, lo) ==
  IF ss = <<>> THEN <<>>
  ELSE LET h == Spanned(Head(ss), lo)
       IN  <<h>> \o SpannedStmts(Tail(ss), h.span.hi + 1)

SpannedArgs(as, lo) ==
  IF as = <<>> THEN <<>>
  ELSE LET a == Head(as)
           e == Spanned(a.expr, IF a.spread THEN lo + 1 ELSE lo)
       IN  <<[spread |-> a.spread, expr |-> e]>> \o SpannedArgs(Tail(as), e.span.hi + 1)

\* position after a statement list that starts at lo
StmtsEnd(ss, lo) == IF ss = <<>> THEN lo ELSE ss[Len(ss)].span.hi + 1
\* position after the closing parenthesis of an argument list whose first argument starts at lo
ArgsEnd(as, lo) == IF as = <<>> THEN lo + 1 ELSE as[Len(as)].expr.span.hi + 1

Spanned(t, lo) ==
  CASE t.kind = "Ident" ->
         [kind |-> "Ident", sym |-> t.sym, span |-> [lo |-> lo, hi |-> lo + 1]]
    [] t.kind \in {"Fn", "Arrow"} ->
         \* [async] function ( ) { body }      [async] ( ) => { body }
         LET b0 == lo + (IF t.is_async THEN 1 ELSE 0) + 4
             b  == SpannedStmts(t.body, b0)
         IN  [kind |-> t.kind, is_async |-> t.is_async, body |-> b,
              span |-> [lo |-> lo, hi |-> StmtsEnd(b, b0) + 1]]
    [] t.kind = "Paren" ->
         LET e == Spanned(t.expr, lo + 1)
         IN  [kind |-> "Paren", expr |-> e, span |-> [lo |-> lo, hi |-> e.span.hi + 1]]
    [] t.kind = "Member" ->
         LET o == Spanned(t.obj, lo)
             p == Spanned(t.prop, o.span.hi + 1)
         IN  [kind |-> "Member", obj |-> o, prop |-> p,
              span |-> [lo |-> lo, hi |-> p.span.hi]]
    [] t.kind \in {"New", "Call"} ->
         \* new callee [ ( args ) ]            callee ( args )
         LET c  == Spanned(t.callee, IF t.kind = "New" THEN lo + 1 ELSE lo)
             a0 == c.span.hi + 1
         IN  IF t.args = <<>>
             THEN [kind |-> t.kind, callee |-> c, args |-> <<>>,
                   span |-> [lo |-> lo, hi |-> c.span.hi]]
             ELSE LET as == SpannedArgs(t.args[1], a0)
                  IN  [kind |-> t.kind, callee |-> c, args |-> <<as>>,
                       span |-> [lo |-> lo, hi |-> ArgsEnd(as, a0)]]
    [] t.kind = "Class" ->
         \* class { foo ( ) { body } }
         LET b == SpannedStmts(t.body, lo + 6)
         IN  [kind |-> "Class", body |-> b,
              span |-> [lo |-> lo, hi |-> StmtsEnd(b, lo + 6) + 2]]
    [] t.kind \in {"Module", "Script"} ->
         LET b == SpannedStmts(t.body, lo)
         IN  [kind |-> t.kind, body |-> b, span |-> [lo |-> lo, hi |-> StmtsEnd(b, lo)]]

(***************************************************************************)
(* Bounded input: the programs the rule is run on.                         *)
(***************************************************************************)
Callees ==
  {Ident("Promise"), Ident("Foo"), Ident("promise"),
   MemberExpr(Ident("globalThis"), Ident("Promise")), ParenExpr(Ident("Promise"))}

Executors ==
  {FnExpr(a, <<>>) : a \in BOOLEAN} \cup {ArrowExpr(a, <<>>) : a \in BOOLEAN}
    \cup {Ident("Foo")}

FirstArgs(maxParen) ==
  {ExprOrSpread(s, Parens(e, n)) : s \in BOOLEAN, e \in Executors, n \in 0..maxParen}

LaterArgs ==
  {ExprOrSpread(FALSE, FnExpr(TRUE, <<>>)), ExprOrSpread(FALSE, ArrowExpr(TRUE, <<>>)),
   ExprOrSpread(FALSE, Ident("Foo"))}

RECURSIVE LaterLists(_)
\* the lists of at most n later arguments
LaterLists(n) ==
  IF n = 0 THEN {<<>>}
  ELSE {<<>>} \cup {<<a>> \o l : a \in LaterArgs, l \in LaterLists(n - 1)}

\* Option<Vec<ExprOrSpread>>: absent, empty, or a first argument and later ones
ArgOptions(maxParen, maxArgs) ==
  {<<>>, << <<>> >>}
    \cup {<< <<f>> \o l >> : f \in FirstArgs(maxParen), l \in LaterLists(maxArgs - 1)}

News(maxParen, maxArgs) ==
  {NewExpr(c, as) : c \in Callees, as \in ArgOptions(maxParen, maxArgs)}

\* a constructor call placed inside other syntax
Nestings(e) ==
  { NewExpr(Ident("Promise"), << <<ExprOrSpread(FALSE, FnExpr(TRUE, <<e>>))>> >>),
    NewExpr(Ident("Promise"), << <<ExprOrSpread(FALSE, ParenExpr(ArrowExpr(FALSE, <<e>>)))>> >>),
    NewExpr(ClassExpr(<<e>>), <<>>),
    CallExpr(Ident("Foo"), << <<ExprOrSpread(FALSE, e)>> >>) }

Siblings ==
  {<<>>, <<NewExpr(Ident("Promise"), << <<ExprOrSpread(FALSE, ArrowExpr(TRUE, <<>>))>> >>)>>,
   <<Ident("Foo")>>}

Bodies ==
  {<<e>> : e \in News(MaxParen, MaxArgs)}
    \cup {<<n>> \o s : n \in UNION {Nestings(e) : e \in News(1, 1)}, s \in Siblings}

Programs == {Spanned(Program(k, b), 0) : k \in {"Module", "Script"}, b \in Bodies}

(***************************************************************************)
(* State.                                                                  *)
(***************************************************************************)
VARIABLES
  program,      \* the tree handed to lint_program
  pc,           \* "init", "walk" or "done"
  stack,        \* nodes still to be visited, next one first
  diagnostics,  \* the findings of the context, in the order they were added
  visited,      \* number of nodes visited by the current run
  run,          \* number of the current run of lint_program
  first_run     \* the findings of the first run, once a later run has started

vars == <<program, pc, stack, diagnostics, visited, run, first_run>>

(***************************************************************************)
(* The rule.                                                               *)
(***************************************************************************)
\* slip: only one level of parentheses is looked through
is_async_function_one_level(expr) ==
  CASE expr.kind = "Fn" -> expr.is_async
    [] expr.kind = "Arrow" -> expr.is_async
    [] expr.kind = "Paren" -> expr.expr.kind \in {"Fn", "Arrow"} /\ expr.expr.is_async
    [] OTHER -> FALSE

RECURSIVE is_async_function_any_fn(_)
\* slip: the is_async flag of a function expression is not read
is_async_function_any_fn(expr) ==
  CASE expr.kind = "Fn" -> TRUE
    [] expr.kind = "Arrow" -> expr.is_async
    [] expr.kind = "Paren" -> is_async_function_any_fn(expr.expr)
    [] OTHER -> FALSE

RECURSIVE is_async_function(_)
is_async_function(expr) ==
  CASE expr.kind = "Fn" -> expr.is_async
    [] expr.kind = "Arrow" -> expr.is_async
    [] expr.kind = "Paren" -> is_async_function(expr.expr)
    [] OTHER -> FALSE

\* Vec::get: Some(v[i]) when i is in range (indices from 0), None otherwise
get(v, i) == IF i < Len(v) THEN <<v[i + 1]>> ELSE <<>>

\* Context::add_diagnostic_with_hint as used by the rule: one more finding
add_diagnostic_with_hint(context, span, code, message, hint) ==
  Append(context, [span |-> span, code |-> code, message |-> message, hint |-> hint])

\* slip: the finding is anchored at the executor, not at the constructor call
visit_new_expr_arg_span(context, new_expr) ==
  IF new_expr.callee.kind = "Ident"
  THEN IF new_expr.callee.sym # "Promise"
       THEN context
       ELSE IF new_expr.args # <<>>
            THEN LET first_arg == get(new_expr.args[1], 0)
                 IN  IF first_arg # <<>>
                     THEN IF is_async_function(first_arg[1].expr)
                          THEN add_diagnostic_with_hint(context, first_arg[1].expr.span,
                                                        CODE, MESSAGE, HINT)
                          ELSE context
                     ELSE context
            ELSE context
  ELSE context

\* slip: every argument is inspected, not only the first
visit_new_expr_any_arg(context, new_expr) ==
  IF new_expr.callee.kind = "Ident"
  THEN IF new_expr.callee.sym # "Promise"
       THEN context
       ELSE IF new_expr.args # <<>>
            THEN LET first_arg == get(new_expr.args[1], 0)
                 IN  IF first_arg # <<>>
                     THEN IF \E i \in 1..Len(new_expr.args[1]) : is_async_function(new_expr.args[1][i].expr)
                          THEN add_diagnostic_with_hint(context, new_expr.span,
                                                        CODE, MESSAGE, HINT)
                          ELSE context
                     ELSE context
            ELSE context
  ELSE context

\* the name a loosely resolved callee would go by
LooseName(callee) ==
  CASE callee.kind = "Ident" -> callee.sym
    [] callee.kind = "Member" -> callee.prop.sym
    [] callee.kind = "Paren" /\ callee.expr.kind = "Ident" -> callee.expr.sym
    [] OTHER -> ""

\* slip: the callee is resolved through member access and parentheses
visit_new_expr_loose_callee(context, new_expr) ==
  IF TRUE
  THEN IF LooseName(new_expr.callee) # "Promise"
       THEN context
       ELSE IF new_expr.args # <<>>
            THEN LET first_arg == get(new_expr.args[1], 0)
                 IN  IF first_arg # <<>>
                     THEN IF is_async_function(first_arg[1].expr)
                          THEN add_diagnostic_with_hint(context, new_expr.span,
                                                        CODE, MESSAGE, HINT)
                          ELSE context
                     ELSE context
            ELSE context
  ELSE context

\* slip: findings reported by an earlier run are remembered and not reported again
visit_new_expr_cached(context, new_expr) ==
  IF new_expr.callee.kind = "Ident"
  THEN IF new_expr.callee.sym # "Promise"
       THEN context
       ELSE IF new_expr.args # <<>>
            THEN LET first_arg == get(new_expr.args[1], 0)
                 IN  IF first_arg # <<>>
                     THEN IF is_async_function(first_arg[1].expr)
                             /\ \A i \in 1..Len(first_run) : first_run[i].span # new_expr.span
                          THEN add_diagnostic_with_hint(context, new_expr.span,
                                                        CODE, MESSAGE, HINT)
                          ELSE context
                     ELSE context
            ELSE context
  ELSE context

\* slip: a call without a first argument counts as a match
visit_new_expr_default_match(context, new_expr) ==
  IF new_expr.callee.kind = "Ident"
  THEN IF new_expr.callee.sym # "Promise"
       THEN context
       ELSE IF new_expr.args # <<>>
            THEN LET first_arg == get(new_expr.args[1], 0)
                 IN  IF first_arg # <<>>
                     THEN IF is_async_function(first_arg[1].expr)
                          THEN add_diagnostic_with_hint(context, new_expr.span,
                                                        CODE, MESSAGE, HINT)
                          ELSE context
                     ELSE add_diagnostic_with_hint(context, new_expr.span, CODE, MESSAGE, HINT)
            ELSE context
  ELSE context

\* slip: a spread first argument is skipped
visit_new_expr_skip_spread(context, new_expr) ==
  IF new_expr.callee.kind = "Ident"
  THEN IF new_expr.callee.sym # "Promise"
       THEN context
       ELSE IF new_expr.args # <<>>
            THEN LET first_arg == get(new_expr.args[1], 0)
                 IN  IF first_arg # <<>>
                     THEN IF ~first_arg[1].spread /\ is_async_function(first_arg[1].expr)
                          THEN add_diagnostic_with_hint(context, new_expr.span,
                                                        CODE, MESSAGE, HINT)
                          ELSE context
                     ELSE context
            ELSE context
  ELSE context

\* the diagnostics of the context after the visitor has seen new_expr
visit_new_expr(context, new_expr) ==
  IF new_expr.callee.kind = "Ident"
  THEN IF new_expr.callee.sym # "Promise"
       THEN context
       ELSE IF new_expr.args # <<>>
            THEN LET first_arg == get(new_expr.args[1], 0)
                 IN  IF first_arg # <<>>
                     THEN IF is_async_function(first_arg[1].expr)
                          THEN add_diagnostic_with_hint(context, new_expr.span,
                                                        CODE, MESSAGE, HINT)
                          ELSE context
                     ELSE context
            ELSE context
  ELSE context

\* slip: the walk does not descend below a constructor call
Children_stop_at_new(n) ==
  CASE n.kind \in {"Ident", "New"} -> <<>>
    [] n.kind \in {"Fn", "Arrow", "Class", "Module", "Script"} -> n.body
    [] n.kind = "Paren" -> <<n.expr>>
    [] n.kind = "Member" -> <<n.obj, n.prop>>
    [] n.kind = "Call" ->
         <<n.callee>> \o (IF n.args = <<>> THEN <<>>
                          ELSE [i \in 1..Len(n.args[1]) |-> n.args[1][i].expr])

\* the children of a node, in the order visit_all_with walks them
Children(n) ==
  CASE n.kind = "Ident" -> <<>>
    [] n.kind \in {"Fn", "Arrow", "Class", "Module", "Script"} -> n.body
    [] n.kind = "Paren" -> <<n.expr>>
    [] n.kind = "Member" -> <<n.obj, n.prop>>
    [] n.kind \in {"New", "Call"} ->
         <<n.callee>> \o (IF n.args = <<>> THEN <<>>
                          ELSE [i \in 1..Len(n.args[1]) |-> n.args[1][i].expr])

Init ==
  /\ program \in Programs
  /\ pc = "init"
  /\ stack = <<>>
  /\ diagnostics = <<>>
  /\ visited = 0
  /\ run = 1
  /\ first_run = <<>>

\* lint_program, arm ProgramRef::Module
LintModule ==
  /\ pc = "init"
  /\ program.kind = "Module"
  /\ stack' = <<program>>
  /\ pc' = "walk"
  /\ UNCHANGED <<program, diagnostics, visited, run, first_run>>

\* lint_program, arm ProgramRef::Script
LintScript ==
  /\ pc = "init"
  /\ program.kind = "Script"
  /\ stack' = <<program>>
  /\ pc' = "walk"
  /\ UNCHANGED <<program, diagnostics, visited, run, first_run>>

\* the walk reaches a constructor call: visit_new_expr, then its children
VisitNewExpr ==
  /\ pc = "walk"
  /\ stack # <<>>
  /\ Head(stack).kind = "New"
  /\ diagnostics' = visit_new_expr(diagnostics, Head(stack))
  /\ stack' = Children(Head(stack)) \o Tail(stack)
  /\ visited' = visited + 1
  /\ UNCHANGED <<program, pc, run, first_run>>

\* the walk reaches any other node: the visitor has no method for it
VisitOther ==
  /\ pc = "walk"
  /\ stack # <<>>
  /\ Head(stack).kind # "New"
  /\ stack' = Children(Head(stack)) \o Tail(stack)
  /\ visited' = visited + 1
  /\ UNCHANGED <<program, pc, diagnostics, run, first_run>>

\* visit_all_with returns and so does lint_program
Return ==
  /\ pc = "walk"
  /\ stack = <<>>
  /\ pc' = "done"
  /\ UNCHANGED <<program, stack, diagnostics, visited, run, first_run>>

\* the driver runs the rule again over the same tree with a fresh context
Rerun ==
  /\ pc = "done"
  /\ run < MaxRuns
  /\ first_run' = IF run = 1 THEN diagnostics ELSE first_run
  /\ diagnostics' = <<>>
  /\ visited' = 0
  /\ run' = run + 1
  /\ pc' = "init"
  /\ UNCHANGED <<program, stack>>

Next ==
  \/ LintModule
  \/ LintScript
  \/ VisitNewExpr
  \/ VisitOther
  \/ Return
  \/ Rerun

Spec == Init /\ [][Next]_vars

(***************************************************************************)
(* Vocabulary of the properties, written without the rule's own operators. *)
(***************************************************************************)
RECURSIVE Unwrapped(_)
\* the expression inside every enclosing pair of parentheses
Unwrapped(e) == IF e.kind = "Paren" THEN Unwrapped(e.expr) ELSE e

RECURSIVE ParenDepth(_)
ParenDepth(e) == IF e.kind = "Paren" THEN 1 + ParenDepth(e.expr) ELSE 0

AsyncLike(e) == Unwrapped(e).kind \in {"Fn", "Arrow"} /\ Unwrapped(e).is_async

Range(f) == {f[i] : i \in DOMAIN f}

\* the nodes directly below n
Below(n) ==
  CASE n.kind \in {"Fn", "Arrow", "Class", "Module", "Script"} -> Range(n.body)
    [] n.kind = "Paren" -> {n.expr}
    [] n.kind = "Member" -> {n.obj, n.prop}
    [] n.kind \in {"New", "Call"} ->
         {n.callee} \cup (IF n.args = <<>> THEN {} ELSE {a.expr : a \in Range(n.args[1])})
    [] OTHER -> {}

RECURSIVE NodesOf(_)
\* every node of the tree rooted at n
NodesOf(n) == {n} \cup UNION {NodesOf(c) : c \in Below(n)}

PromiseCallee(n) == n.callee.kind = "Ident" /\ n.callee.sym = "Promise"
HasFirstArg(n) == n.args # <<>> /\ Len(n.args[1]) > 0
FirstArg(n) == n.args[1][1]
Matching(n) == n.kind = "New" /\ PromiseCallee(n) /\ HasFirstArg(n) /\ AsyncLike(FirstArg(n).expr)
FindingAt(n) == [span |-> n.span, code |-> CODE, message |-> MESSAGE, hint |-> HINT]

\* the walk is about to visit a node
Visiting == pc = "walk" /\ stack # <<>>
VisitingNew == Visiting /\ Head(stack).kind = "New"
\* the first statement of the program
Stmt1 == program.body[1]

\* C1: is_async_function(e) is true exactly when e, with all its enclosing
\* parentheses removed, is a function or arrow expression whose is_async flag
\* is set, at every depth of parentheses; for every other expression it is false.
C1_Theorem ==
  (Visiting /\ Head(stack).kind \notin {"Module", "Script"})
    => LET e == Head(stack)
       IN  /\ is_async_function(e) <=> AsyncLike(e)
           /\ e.kind \notin {"Fn", "Arrow", "Paren"} => ~is_async_function(e)
           /\ e.kind \in {"Fn", "Arrow"} => (is_async_function(e) <=> e.is_async)
           /\ e.kind = "Paren" => (is_async_function(e) <=> is_async_function(e.expr))

C1_Witness ==
  /\ Visiting
  /\ ParenDepth(Head(stack)) = 5
  /\ Unwrapped(Head(stack)).kind = "Arrow"
  /\ is_async_function(Head(stack))

\* C2: visiting a constructor call whose callee is the identifier Promise and
\* whose first argument is an async function or arrow under zero or more
\* parentheses adds exactly one finding, with the fixed code, message and
\* hint and with the span of the constructor call.
C2_Theorem ==
  [][(VisitingNew /\ Matching(Head(stack)))
       => /\ diagnostics' = Append(diagnostics, FindingAt(Head(stack)))
          /\ diagnostics'[Len(diagnostics')].span # FirstArg(Head(stack)).expr.span]_vars

C2_Witness ==
  /\ pc = "done"
  /\ Matching(Stmt1)
  /\ ParenDepth(FirstArg(Stmt1).expr) = 5
  /\ diagnostics = <<FindingAt(Stmt1)>>
  /\ Stmt1.span.lo = 0

\* C3: visiting new Promise(a0, ...) whose first argument is not an async
\* function or arrow once its parentheses are removed leaves the diagnostics
\* unchanged.
C3_Theorem ==
  [][(VisitingNew /\ PromiseCallee(Head(stack)) /\ HasFirstArg(Head(stack))
        /\ ~AsyncLike(FirstArg(Head(stack)).expr))
       => diagnostics' = diagnostics]_vars

C3_Witness ==
  /\ pc = "done"
  /\ Stmt1.kind = "New" /\ PromiseCallee(Stmt1) /\ HasFirstArg(Stmt1)
  /\ ParenDepth(FirstArg(Stmt1).expr) = 2
  /\ Unwrapped(FirstArg(Stmt1).expr).kind = "Fn"
  /\ ~Unwrapped(FirstArg(Stmt1).expr).is_async
  /\ diagnostics = <<>>

\* the constructor call n with every argument after the first removed
FirstArgOnly(n) == [n EXCEPT !.args = << <<FirstArg(n)>> >>]

\* C4: only the first argument decides: a visit adds as many findings as the
\* visit of the same call with its later arguments removed, and none when the
\* first argument is not async-function-like, whatever the later arguments are.
C4_Theorem ==
  [][(VisitingNew /\ HasFirstArg(Head(stack)))
       => /\ Len(diagnostics') - Len(diagnostics)
               = Len(visit_new_expr(<<>>, FirstArgOnly(Head(stack))))
          /\ ~AsyncLike(FirstArg(Head(stack)).expr) => diagnostics' = diagnostics]_vars

C4_Witness ==
  /\ pc = "done"
  /\ Stmt1.kind = "New" /\ PromiseCallee(Stmt1) /\ HasFirstArg(Stmt1)
  /\ Len(Stmt1.args[1]) = 2
  /\ ~AsyncLike(FirstArg(Stmt1).expr)
  /\ AsyncLike(Stmt1.args[1][2].expr)
  /\ diagnostics = <<>>

\* C5: a constructor call whose callee is not an identifier node, or is an
\* identifier other than Promise, adds no finding, even when its first
\* argument is an async function or arrow.
C5_Theorem ==
  [][(VisitingNew /\ ~PromiseCallee(Head(stack))) => diagnostics' = diagnostics]_vars

C5_Witness ==
  /\ pc = "done"
  /\ Stmt1.kind = "New"
  /\ Stmt1.callee.kind = "Member"
  /\ Stmt1.callee.prop.sym = "Promise"
  /\ HasFirstArg(Stmt1) /\ AsyncLike(FirstArg(Stmt1).expr)
  /\ diagnostics = <<>>

MatchingSpans == {n.span : n \in {m \in NodesOf(program) : Matching(m)}}

\* C7: when lint_program returns, there is exactly one finding for each
\* matching constructor call of the tree, wherever it is nested, and each
\* finding has the span of its own call.
C7_Theorem ==
  pc = "done"
    => /\ Len(diagnostics) = Cardinality(MatchingSpans)
       /\ {d.span : d \in Range(diagnostics)} = MatchingSpans
       /\ Range(diagnostics) = {FindingAt(n) : n \in {m \in NodesOf(program) : Matching(m)}}

C7_Witness ==
  /\ pc = "done"
  /\ Matching(Stmt1)
  /\ Unwrapped(FirstArg(Stmt1).expr).body # <<>>
  /\ Matching(Unwrapped(FirstArg(Stmt1).expr).body[1])
  /\ Len(program.body) = 1
  /\ {d.span : d \in Range(diagnostics)}
       = {Stmt1.span, Unwrapped(FirstArg(Stmt1).expr).body[1].span}
  /\ Len(diagnostics) = 2

NoArguments(n) == n.args = <<>> \/ n.args = << <<>> >>

\* C9: visiting new Promise with an absent or an empty argument list adds no
\* finding and the walk carries on with the rest of the tree; when
\* lint_program returns, every node of the tree has been visited.
C9_Theorem ==
  [][/\ (VisitingNew /\ PromiseCallee(Head(stack)) /\ NoArguments(Head(stack)))
          => /\ diagnostics' = diagnostics
             /\ pc' = "walk"
             /\ stack' = <<Head(stack).callee>> \o Tail(stack)
     /\ pc' = "done" => visited' = Cardinality(NodesOf(program))]_vars

C9_Witness ==
  /\ pc = "done"
  /\ Stmt1.kind = "Call"
  /\ LET n == FirstArg(Stmt1).expr
     IN  n.kind = "New" /\ PromiseCallee(n) /\ n.args = << <<>> >>
  /\ Len(program.body) = 2
  /\ Matching(program.body[2])
  /\ diagnostics = <<FindingAt(program.body[2])>>
  /\ visited = Cardinality(NodesOf(program))

\* the constructor call n with the spread mark of its first argument removed
Unspread(n) == [n EXCEPT !.args[1][1].spread = FALSE]

\* C10: a spread first argument is treated as its expression: the visit of
\* new Promise(...e) adds what the visit of the same call without the spread
\* adds, which is one finding when e is an async function or arrow.
C10_Theorem ==
  [][(VisitingNew /\ HasFirstArg(Head(stack)) /\ FirstArg(Head(stack)).spread)
       => /\ diagnostics' = visit_new_expr(diagnostics, Unspread(Head(stack)))
          /\ Matching(Head(stack))
               => diagnostics' = Append(diagnostics, FindingAt(Head(stack)))]_vars

C10_Witness ==
  /\ pc = "done"
  /\ Matching(Stmt1)
  /\ FirstArg(Stmt1).spread
  /\ ParenDepth(FirstArg(Stmt1).expr) = 1
  /\ diagnostics = <<FindingAt(Stmt1)>>

====
